---------------------------- MODULE Spec2Model ----------------------------
(***************************************************************************)
(* Model of the Workbench interactive shell                                *)
(* (workbench_cli/workbench_shell.py): the AutoQuoteTransformer line       *)
(* filter and the WorkbenchShell connection, command table and dispatch.   *)
(*                                                                         *)
(* Strings are sequences of one-character strings, so that splitting,      *)
(* substring replacement and quoting are computed, not assumed.            *)
(***************************************************************************)
EXTENDS Naturals, Sequences, FiniteSets

VARIABLES
    \* ---- AutoQuoteTransformer (one call of transform) ----
    tpc,            \* "off" | "input" | "done": position of the transform call
    line,           \* the line handed to transform (orig_line)
    command_set,    \* AutoQuoteTransformer.command_set
    ns_token_set,   \* the names found in shell.all_ns_refs
    out,            \* the line transform returned
    \* ---- WorkbenchShell ----
    pc,             \* position of the process: "off", the steps of __init__, "shell", "exited"
    exit_status,    \* <<>> while the process runs, <<n>> once it ended with status n
    exit_cause,     \* what ended the process
    server_info,    \* self.server_info
    advertised,     \* what each server answers to list_all_workers / list_all_commands
    handles,        \* every zerorpc.Client created so far: kind, server, open
    workbench,      \* self.workbench: 0 (None) or an index into handles
    session,        \* self.session: the Session record once created
    command_dict,   \* self.command_dict: the command table once built
    streamer,       \* the client self.streamer was given: 0 or an index into handles
    file_list,      \* load_sample: the files still to load
    last            \* what the last operation was, did on the wire and returned

tvars == <<tpc, line, command_set, ns_token_set, out>>
svars == <<pc, exit_status, exit_cause, server_info, advertised, handles,
           workbench, session, command_dict, streamer, file_list, last>>
vars == <<tvars, svars>>

\* Python's None (also the absent group of re.split); no string equals it.
None == <<"None">>

-----------------------------------------------------------------------------
(***************************************************************************)
(* Strings                                                                 *)
(***************************************************************************)
DQ == "\""
SP == " "

\* words the bounded input lines are built from
W_help == <<"h", "e", "l", "p">>
W_ps == <<"p", "s">>
W_p == <<"p">>
W_md == <<"m", "d">>

\* sym in line
Contains(s, c) == \E i \in 1..Len(s) : s[i] = c

\* old in s  (Python substring test on strings)
IsSubstring(old, s) ==
    \E i \in 1..(Len(s) + 1) :
        /\ i + Len(old) - 1 <= Len(s)
        /\ SubSeq(s, i, i + Len(old) - 1) = old

\* str.replace(old, new) with old = '': new goes before every character and at the end
RECURSIVE Interleave(_, _, _)
Interleave(s, new, i) ==
    IF i > Len(s) THEN new
    ELSE new \o <<s[i]>> \o Interleave(s, new, i + 1)

\* str.replace(old, new) with old # '': leftmost non-overlapping occurrences
RECURSIVE ReplaceFrom(_, _, _, _)
ReplaceFrom(s, old, new, i) ==
    IF i > Len(s) THEN <<>>
    ELSE IF i + Len(old) - 1 <= Len(s) /\ SubSeq(s, i, i + Len(old) - 1) = old
         THEN new \o ReplaceFrom(s, old, new, i + Len(old))
         ELSE <<s[i]>> \o ReplaceFrom(s, old, new, i + 1)

\* line.replace(old, new)
Replace(s, old, new) ==
    IF old = <<>> THEN Interleave(s, new, 1) ELSE ReplaceFrom(s, old, new, 1)

\* (mutant) the token between single quotes
SingleQuoted(token) == <<"'">> \o token \o <<"'">>

\* '"'+token+'"'
Quoted(token) == <<DQ>> \o token \o <<DQ>>

-----------------------------------------------------------------------------
(***************************************************************************)
(* AutoQuoteTransformer.transform                                          *)
(***************************************************************************)
\* (mutant) the list without the two parentheses
skip_symbols_no_parens == {";", ",", "'", DQ}

\* (mutant) the list without the double quote
skip_symbols_no_double_quote == {";", ",", "'", "(", ")"}

\* skip_symbols = [';', ',', '\'', '"', '(', ')']
skip_symbols == {";", ",", "'", DQ, "(", ")"}

\* any([sym in line for sym in skip_symbols])
HasSkipSymbol(s) == \E sym \in skip_symbols : Contains(s, sym)

\* The characters re.split(' |;|,|(|)|\'|"', line) splits on.  The pattern's
\* alternatives are tried in order and the fourth, the group (|), matches the
\* empty string everywhere, so ' and " are never tried and ( ) are not literals;
\* Python 2 does not split on an empty match.
SplitChars == {SP, ";", ","}

\* re.split with one capture group: the pieces between the separators, each
\* separator followed by the text of the group, which took no part: None.
RECURSIVE SplitFrom(_, _, _)
SplitFrom(s, i, cur) ==
    IF i > Len(s) THEN <<cur>>
    ELSE IF s[i] \in SplitChars
         THEN <<cur, None>> \o SplitFrom(s, i + 1, <<>>)
         ELSE SplitFrom(s, i + 1, Append(cur, s[i]))

\* token_list = re.split(' |;|,|(|)|\'|"', line)
token_list(s) == SplitFrom(s, 1, <<>>)

\* token_set = set(token_list); None removed
token_set(s) == {token_list(s)[i] : i \in 1..Len(token_list(s))} \ {None}

\* if num_tokens > 1 and first_token in self.command_set
TakesBranch(s, cmds) ==
    /\ Len(token_list(s)) > 1
    /\ token_list(s)[1] \in cmds

\* (mutant) the first token is taken out in both branches
LoopTokensSkippingFirst(s, cmds) ==
    IF HasSkipSymbol(s) \/ ~TakesBranch(s, cmds) THEN {}
    ELSE token_set(s) \ {token_list(s)[1]}

\* (mutant) token_set.remove('help') left out
LoopTokensKeepingHelp(s, cmds) ==
    IF HasSkipSymbol(s) \/ ~TakesBranch(s, cmds) THEN {}
    ELSE token_set(s)

\* the set the for loop that runs iterates over (none runs: the empty set)
LoopTokens(s, cmds) ==
    IF HasSkipSymbol(s) \/ ~TakesBranch(s, cmds) THEN {}
    ELSE IF token_list(s)[1] = W_help THEN token_set(s) \ {W_help}
    ELSE token_set(s)

\* the orders in which a Python set may hand out its members
IterationOrders(S) ==
    {o \in [1..Cardinality(S) -> S] : \A i, j \in 1..Cardinality(S) : o[i] = o[j] => i = j}

\* (mutant) the loop ends after the first token handed out
QuoteFirstOnly(s, order, i) ==
    IF i > Len(order) THEN s
    ELSE Replace(s, order[i], Quoted(order[i]))

\* for token in token_set: line = line.replace(token, '"'+token+'"')
RECURSIVE QuoteAll(_, _, _)
QuoteAll(s, order, i) ==
    IF i > Len(order) THEN s
    ELSE QuoteAll(Replace(s, order[i], Quoted(order[i])), order, i + 1)

\* (mutant) the namespace test left out
QuoteIgnoringNamespace(s, order, ns, i) == QuoteAll(s, order, i)

\* for token in token_set: if token not in ns_token_set: line = line.replace(...)
RECURSIVE QuoteNotInNamespace(_, _, _, _)
QuoteNotInNamespace(s, order, ns, i) ==
    IF i > Len(order) THEN s
    ELSE IF order[i] \notin ns
         THEN QuoteNotInNamespace(Replace(s, order[i], Quoted(order[i])), order, ns, i + 1)
         ELSE QuoteNotInNamespace(s, order, ns, i + 1)

\* transform(self, line, _continue_prompt); order is the iteration order of the
\* set the loop runs over
transform(s, cmds, ns, order) ==
    IF HasSkipSymbol(s) THEN s
    ELSE IF ~TakesBranch(s, cmds) THEN s
    ELSE IF token_list(s)[1] = W_help THEN QuoteAll(s, order, 1)
    ELSE QuoteNotInNamespace(s, order, ns, 1)

-----------------------------------------------------------------------------
(***************************************************************************)
(* Bounded inputs of transform                                             *)
(***************************************************************************)
\* most words and spaces in a line without skip symbols
MaxPieces == 5
\* most words and spaces in a line with one skip symbol put into it
MaxSymPieces == 2

WordPieces == {W_help, W_ps, W_p, W_md, <<SP>>}

RECURSIVE LinesUpTo(_)
LinesUpTo(n) ==
    IF n = 0 THEN {<<>>}
    ELSE LinesUpTo(n - 1) \cup {l \o w : l \in LinesUpTo(n - 1), w \in WordPieces}

\* c(a): a word applied to a word
CallLines ==
    {c \o <<"(">> \o a \o <<")">> : c \in LinesUpTo(1), a \in LinesUpTo(1)}

\* one of ; , ' " ( ) at any place of a line of words and spaces
SymLines ==
    UNION {{SubSeq(l, 1, i) \o <<sym>> \o SubSeq(l, i + 1, Len(l)) :
                i \in 0..Len(l), sym \in {";", ",", "'", DQ, "(", ")"}} :
           l \in LinesUpTo(MaxSymPieces)}

InputLines == LinesUpTo(MaxPieces) \cup SymLines \cup CallLines

CommandSets == {{W_ps}, {W_help, W_ps}}
NamespaceSets == SUBSET {W_ps, W_md}

-----------------------------------------------------------------------------
(***************************************************************************)
(* Properties of transform                                                 *)
(***************************************************************************)
\* the six characters a rewritten line may not hold
BailOutChars == {";", ",", "'", DQ, "(", ")"}

HasBailOutChar(s) == \E c \in BailOutChars : Contains(s, c)

\* the text between the spaces of a line, empty pieces kept: field i of the
\* output stands where field i of the input stood, transform adding no space
RECURSIVE FieldsFrom(_, _, _)
FieldsFrom(s, i, cur) ==
    IF i > Len(s) THEN <<cur>>
    ELSE IF s[i] = SP THEN <<cur>> \o FieldsFrom(s, i + 1, <<>>)
         ELSE FieldsFrom(s, i + 1, Append(cur, s[i]))

Fields(s) == FieldsFrom(s, 1, <<>>)

\* the tokens of a line as the specification counts them: split on spaces and
\* on the six characters, empty pieces discarded, order kept
RECURSIVE WordsFrom(_, _, _)
WordsFrom(s, i, cur) ==
    IF i > Len(s) THEN (IF cur = <<>> THEN <<>> ELSE <<cur>>)
    ELSE IF s[i] = SP \/ s[i] \in BailOutChars
         THEN (IF cur = <<>> THEN <<>> ELSE <<cur>>) \o WordsFrom(s, i + 1, <<>>)
         ELSE WordsFrom(s, i + 1, Append(cur, s[i]))

Words(s) == WordsFrom(s, 1, <<>>)

WordSet(s) == {Words(s)[i] : i \in 1..Len(Words(s))}

Done == tpc = "done"

\* C4: a line holding any of ; , ' " ( ) is returned unchanged, whatever the
\* command set and the namespace are.
C4_BailOutUnchanged == (Done /\ HasBailOutChar(line)) => out = line

\* C4 witness: the call c(a) of a known command on a namespace name came back unchanged.
C4_Witness ==
    /\ Done
    /\ line = W_ps \o <<"(">> \o W_md \o <<")">>
    /\ W_ps \in command_set
    /\ W_md \in ns_token_set
    /\ out = line

\* C5: a line with fewer than 2 tokens once empty tokens are discarded (a single
\* known command followed by spaces included), and a line whose first token is
\* not a known command, is returned unchanged.
C5_FewTokensOrUnknownUnchanged ==
    (Done /\ (Len(Words(line)) < 2 \/ Words(line)[1] \notin command_set)) => out = line

\* C6 as claimed: 'c t', c a known command other than help, t not in the
\* namespace, neither a substring of the other: the result is c followed by
\* the quoted t, c left bare whether or not c is in the namespace.
C6_CommandLeftBare ==
    \A c \in command_set \ {W_help} : \A t \in WordSet(line) :
        (/\ Done
         /\ line = c \o <<SP>> \o t
         /\ t \notin ns_token_set
         /\ ~IsSubstring(c, t)
         /\ ~IsSubstring(t, c))
        => out = c \o <<SP>> \o Quoted(t)

\* C6 amended: 'c t' as above becomes c followed by the quoted t when c is in
\* the namespace, and the quoted c followed by the quoted t when it is not.
C6_CommandBareIffInNamespace ==
    \A c \in command_set \ {W_help} : \A t \in WordSet(line) :
        (/\ Done
         /\ line = c \o <<SP>> \o t
         /\ t \notin ns_token_set
         /\ ~IsSubstring(c, t)
         /\ ~IsSubstring(t, c))
        => out = (IF c \in ns_token_set THEN c ELSE Quoted(c)) \o <<SP>> \o Quoted(t)

\* C6 witness: 'ps md' with ps a command outside the namespace came back with both quoted.
C6_Witness ==
    /\ Done
    /\ line = W_ps \o <<SP>> \o W_md
    /\ W_ps \in command_set
    /\ ns_token_set = {}
    /\ out = Quoted(W_ps) \o <<SP>> \o Quoted(W_md)

\* the general branch as the specification reads it
InGeneralBranch ==
    /\ ~HasBailOutChar(line)
    /\ Len(Words(line)) >= 2
    /\ Words(line)[1] \in command_set \ {W_help}

\* the general branch as the code takes it
TakesGeneralBranch ==
    /\ ~HasSkipSymbol(line)
    /\ TakesBranch(line, command_set)
    /\ token_list(line)[1] # W_help

\* C7 as claimed: in the general branch every token that is in the namespace
\* is left bare, whatever the other tokens of the line are.
C7_NamespaceTokensBare ==
    (Done /\ InGeneralBranch) =>
        \A i \in 1..Len(Fields(line)) :
            Fields(line)[i] \in ns_token_set =>
                /\ Len(Fields(out)) = Len(Fields(line))
                /\ Fields(out)[i] = Fields(line)[i]

\* C7 amended: in the general branch a token that is in the namespace is left
\* bare when no token of the line outside the namespace (the empty token that
\* a doubled or trailing space makes included) is a substring of it.
C7_NamespaceTokensBareUnlessHit ==
    (Done /\ (InGeneralBranch \/ TakesGeneralBranch)) =>
        \A i \in 1..Len(Fields(line)) :
            (/\ Fields(line)[i] \in ns_token_set
             /\ \A t \in token_set(line) \ ns_token_set : ~IsSubstring(t, Fields(line)[i]))
            => /\ Len(Fields(out)) = Len(Fields(line))
               /\ Fields(out)[i] = Fields(line)[i]

\* C7 witness: 'ps md p' with ps and md in the namespace: md came back bare,
\* p quoted, and ps, which holds p, with quotes inside it.
C7_Witness ==
    /\ Done
    /\ line = W_ps \o <<SP>> \o W_md \o <<SP>> \o W_p
    /\ W_ps \in command_set
    /\ ns_token_set = {W_ps, W_md}
    /\ out = Quoted(W_p) \o <<"s">> \o <<SP>> \o W_md \o <<SP>> \o Quoted(W_p)

\* the help branch as the specification reads it
InHelpBranch ==
    /\ ~HasBailOutChar(line)
    /\ Len(Words(line)) >= 2
    /\ Words(line)[1] = W_help
    /\ W_help \in command_set

\* the help branch as the code takes it
TakesHelpBranch ==
    /\ ~HasSkipSymbol(line)
    /\ TakesBranch(line, command_set)
    /\ token_list(line)[1] = W_help

\* C8 as claimed: in the help branch every token other than help has every
\* occurrence wrapped in double quotes, in the namespace or not, and help
\* itself is not quoted.
C8_HelpQuotesAllOthers ==
    (Done /\ InHelpBranch) =>
        /\ Len(Fields(out)) = Len(Fields(line))
        /\ \A i \in 1..Len(Fields(line)) :
              /\ Fields(line)[i] = W_help => Fields(out)[i] = W_help
              /\ Fields(line)[i] \notin {W_help, <<>>} =>
                     Fields(out)[i] = Quoted(Fields(line)[i])

\* C8 amended: when the line begins with help, a token other than help that
\* holds no other token of the line (the empty token included) as a substring
\* has every occurrence wrapped in double quotes, in the namespace or not, and
\* help is left as it is when no other token is a substring of "help".
C8_HelpQuotesOthersUnlessHit ==
    (Done /\ TakesHelpBranch) =>
        /\ Len(Fields(out)) = Len(Fields(line))
        /\ \A i \in 1..Len(Fields(line)) :
              LET f == Fields(line)[i]
                  others == token_set(line) \ {W_help, f}
              IN  /\ (f = W_help /\ \A t \in others : ~IsSubstring(t, f))
                         => Fields(out)[i] = W_help
                  /\ (f \notin {W_help, <<>>} /\ \A t \in others : ~IsSubstring(t, f))
                         => Fields(out)[i] = Quoted(f)

\* C8 witness: 'help ps md' with ps in the namespace and md not: both came back quoted.
C8_Witness ==
    /\ Done
    /\ line = W_help \o <<SP>> \o W_ps \o <<SP>> \o W_md
    /\ W_help \in command_set
    /\ ns_token_set = {W_ps}
    /\ out = W_help \o <<SP>> \o Quoted(W_ps) \o <<SP>> \o Quoted(W_md)

-----------------------------------------------------------------------------
(***************************************************************************)
(* WorkbenchShell: clients, session, command table                         *)
(***************************************************************************)
\* the addresses grab_server_args() or the operator may name
Servers == {"A", "B"}
\* the names a server may advertise as workers and as commands
WorkerNames == {"meta", "help"}
CommandNames == {"meta", "help"}
\* most calls of connect in one run (the one of __init__ included)
MaxConnects == 2
\* most files load_sample is given at once
MaxFiles == 2

\* zerorpc.Client(timeout=300, heartbeat=2) and (timeout=300, heartbeat=60)
ClientTimeout == 300
ProbeHeartbeat == 2
WorkHeartbeat == 60

\* hashlib.md5(..).hexdigest() is 32 characters; short_md5 = md5[:6]
Md5Len == 32
ShortLen == 6

Hash(c) == [i \in 1..Md5Len |-> c]
Hashes == {Hash("a"), Hash("b")}
Files == {"f1", "f2"}
\* hashlib.md5(raw_bytes).hexdigest() of each file's bytes
Md5Of(f) == IF f = "f1" THEN Hash("a") ELSE Hash("b")

Capabilities == [workers : SUBSET WorkerNames, commands : SUBSET CommandNames]

\* what the two servers advertise: any sets at A, one of two at B
Advertisements ==
    {a \in [Servers -> Capabilities] :
        a["B"] \in {[workers |-> {"meta"}, commands |-> {"help"}],
                    [workers |-> {}, commands |-> {"meta"}]}}

\* the keys of the dict 'general'
Builtins == {"workbench", "help", "load_sample", "reconnect", "version",
             "versions", "short_md5"}

\* what a call does: returns, or raises the named exception
Value(v) == [kind |-> "value", value |-> v]
Raised(e) == [kind |-> "raised", value |-> e]

\* None where a client is expected, a string, an object
NoClient == 0
NoneStr == "None"
NoSession == [absent |-> "session"]
NoTable == [absent |-> "command_dict"]
\* exit_status while the process runs; <<n>> once it ended with status n
Running == <<>>

\* the record of one operation: which entry, its arguments, what the probe
\* did, the remote calls made in order, and what came back; has is what
\* has_sample answered for the file load_sample took last, sent the md5 a
\* worker entry passed to the service
Last(op, name, md5, info, probe, rpc, result) ==
    [op |-> op, name |-> name, md5 |-> md5, info |-> info, probe |-> probe,
     rpc |-> rpc, result |-> result, has |-> NoneStr, sent |-> None]

NoLast == Last("none", NoneStr, None, NoneStr, NoneStr, <<>>, Value(NoneStr))

\* Session.__init__
NewSession == [filename |-> NoneStr, md5 |-> None, short_md5 |-> <<"-">>,
               server |-> "localhost"]

ProbeClient(info) ==
    [kind |-> "probe", server |-> info, open |-> TRUE,
     timeout |-> ClientTimeout, heartbeat |-> ProbeHeartbeat]

WorkClient(info) ==
    [kind |-> "work", server |-> info, open |-> TRUE,
     timeout |-> ClientTimeout, heartbeat |-> WorkHeartbeat]

Close(hs, c) == [hs EXCEPT ![c].open = FALSE]

\* (mutant) the probe's LostRemote is swallowed and the real connection made anyway
connect_swallowing_probe_failure(hs, wb, info, probe) ==
    LET hs1 == Append(hs, ProbeClient(info))
        hs2 == IF wb # NoClient THEN Close(hs1, wb) ELSE hs1
        hs3 == Append(hs2, WorkClient(info))
    IN  [handles |-> hs3, workbench |-> Len(hs3), exit |-> Running,
         rpc |-> <<[client |-> Len(hs1), method |-> "_zerorpc_name"]>>]

\* (mutant) the client held is not closed before the new one is made
connect_leaving_old_client_open(hs, wb, info, probe) ==
    LET tmp == Len(hs) + 1
        hs1 == Append(hs, ProbeClient(info))
    IN  IF probe = "LostRemote"
        THEN [handles |-> hs1, workbench |-> wb, exit |-> <<1>>,
              rpc |-> <<[client |-> tmp, method |-> "_zerorpc_name"]>>]
        ELSE LET hs2 == Close(hs1, tmp)
                 hs4 == Append(hs2, WorkClient(info))
             IN  [handles |-> hs4, workbench |-> Len(hs4), exit |-> Running,
                  rpc |-> <<[client |-> tmp, method |-> "_zerorpc_name"]>>]

\* connect(self, server_info); probe is what _tmp_connect._zerorpc_name() does.
\* exit is <<status>> of sys.exit, <<>> when connect returns.
connect(hs, wb, info, probe) ==
    LET tmp == Len(hs) + 1
        hs1 == Append(hs, ProbeClient(info))
    IN  IF probe = "LostRemote"
        THEN [handles |-> hs1, workbench |-> wb, exit |-> <<1>>,
              rpc |-> <<[client |-> tmp, method |-> "_zerorpc_name"]>>]
        ELSE LET hs2 == Close(hs1, tmp)
                 hs3 == IF wb # NoClient THEN Close(hs2, wb) ELSE hs2
                 hs4 == Append(hs3, WorkClient(info))
             IN  [handles |-> hs4, workbench |-> Len(hs4), exit |-> Running,
                  rpc |-> <<[client |-> tmp, method |-> "_zerorpc_name"]>>]

\* one remote call through client c: the wire record and what the call does
Call(hs, c, method, outcome) ==
    [rpc |-> <<[client |-> c, method |-> method]>>,
     result |-> IF ~hs[c].open THEN Raised("closed client")
                ELSE IF outcome = "ok" THEN Value(method)
                ELSE Raised(outcome)]

RpcOutcomes == {"ok", "RemoteError", "LostRemote"}

\* _data_not_found(e) through repr_to_str_decorator
data_not_found == Value("RED + e.msg + RESET")

\* Python truth of an md5 argument
Falsy(x) == x = None \/ x = <<>>

MustCallMessage == "Must call worker with an md5 argument..."

\* (mutant) the test for a missing md5 left out
work_request_unguarded(sess, hs, wb, worker, md5, outcome) ==
    LET arg == IF Falsy(md5) THEN sess.md5 ELSE md5
        call == Call(hs, wb, "work_request", outcome)
    IN  IF call.result = Raised("RemoteError")
        THEN [rpc |-> call.rpc, result |-> data_not_found, md5 |-> arg]
        ELSE [rpc |-> call.rpc, result |-> call.result, md5 |-> arg]

\* work_request(self, worker, md5=None); md5 in the result is the md5 passed
\* to the service, None when no call is made
work_request(sess, hs, wb, worker, md5, outcome) ==
    IF Falsy(md5) /\ Falsy(sess.md5)
    THEN [rpc |-> <<>>, result |-> Value(MustCallMessage), md5 |-> None]
    ELSE LET arg == IF Falsy(md5) THEN sess.md5 ELSE md5
             call == Call(hs, wb, "work_request", outcome)
         IN  IF call.result = Raised("RemoteError")
             THEN [rpc |-> call.rpc, result |-> data_not_found, md5 |-> arg]
             ELSE [rpc |-> call.rpc, result |-> call.result, md5 |-> arg]

\* dict.update: the entries of g replace those of f
Update(f, g) ==
    [k \in DOMAIN f \cup DOMAIN g |-> IF k \in DOMAIN g THEN g[k] ELSE f[k]]

Entry(kind, target, client, info, value) ==
    [kind |-> kind, target |-> target, client |-> client, info |-> info,
     value |-> value]

\* commands[worker] = lambda md5=None, worker=worker: self.work_request(worker, md5)
WorkerEntries(workers) ==
    [w \in workers |-> Entry("worker", w, NoClient, NoneStr, None)]

\* commands[command] = self.workbench.__getattr__(command): bound to the client of the build
CommandEntries(commands, wb) ==
    [c \in commands |-> Entry("command", c, wb, NoneStr, None)]

\* the dict 'general'
GeneralEntries(wb, info, sess) ==
    [b \in Builtins |->
        CASE b = "workbench" -> Entry("builtin", "client", wb, NoneStr, None)
          [] b = "help" -> Entry("builtin", "help", wb, NoneStr, None)
          [] b = "load_sample" -> Entry("builtin", "load_sample", NoClient, NoneStr, None)
          [] b = "reconnect" -> Entry("builtin", "reconnect", NoClient, info, None)
          [] b = "version" -> Entry("builtin", "versions", NoClient, NoneStr, None)
          [] b = "versions" -> Entry("builtin", "versions", NoClient, NoneStr, None)
          [] b = "short_md5" -> Entry("builtin", "value", NoClient, NoneStr, sess.short_md5)]

\* (mutant) the workers added after the commands
generate_command_dict_workers_last(workers, commands, wb, info, sess) ==
    Update(Update(CommandEntries(commands, wb), WorkerEntries(workers)),
           GeneralEntries(wb, info, sess))

\* _generate_command_dict(self)
generate_command_dict(workers, commands, wb, info, sess) ==
    Update(Update(WorkerEntries(workers), CommandEntries(commands, wb)),
           GeneralEntries(wb, info, sess))

-----------------------------------------------------------------------------
(***************************************************************************)
(* load_sample                                                             *)
(***************************************************************************)
\* what happens to one file: open() fails, the service has the sample, a
\* call raises, or the streamer returns the md5 the service gives
FileOutcome(k, h) == [k |-> k, h |-> h]
FileOutcomes ==
    {FileOutcome(k, None) : k \in {"IOError", "stored", "has_RemoteError",
                                   "has_LostRemote", "stream_RemoteError",
                                   "stream_LostRemote"}}
    \cup {FileOutcome("streamed", h) : h \in Hashes}

\* (mutant) self.session.short_md5 is not assigned
StoreSampleKeepingShortMd5(sess, f, md5) ==
    [sess EXCEPT !.filename = f, !.md5 = md5]

\* the three assignments to self.session after a file is in the service
StoreSample(sess, f, md5) ==
    [sess EXCEPT !.filename = f, !.md5 = md5, !.short_md5 = SubSeq(md5, 1, ShortLen)]

\* the two calls one pass of the loop may make
HasSample(hs, wb, o) ==
    Call(hs, wb, "has_sample",
         IF o.k = "has_RemoteError" THEN "RemoteError"
         ELSE IF o.k = "has_LostRemote" THEN "LostRemote" ELSE "ok")

StreamToWorkbench(hs, st, o) ==
    Call(hs, st, "stream_to_workbench",
         IF o.k = "stream_RemoteError" THEN "RemoteError"
         ELSE IF o.k = "stream_LostRemote" THEN "LostRemote" ELSE "ok")

\* the result of one pass: the session, the calls made, what the pass does,
\* the md5 hashlib gave and what has_sample answered
Pass(sess, rpc, result, md5, has) ==
    [session |-> sess, rpc |-> rpc, result |-> result, md5 |-> md5, has |-> has]

\* (mutant) the file is streamed whatever has_sample answers
load_file_always_streaming(f, o, sess, hs, wb, st) ==
    LET has == HasSample(hs, wb, o)
        stream == StreamToWorkbench(hs, st, o)
        answer == IF o.k = "stored" THEN "True" ELSE "False"
        given == IF o.k = "stored" THEN Md5Of(f) ELSE o.h
    IN  IF o.k = "IOError"
        THEN Pass(sess, <<>>, Raised("IOError"), None, NoneStr)
        ELSE IF has.result.kind = "raised"
        THEN Pass(sess, has.rpc, has.result, Md5Of(f), NoneStr)
        ELSE IF stream.result.kind = "raised"
        THEN Pass(sess, has.rpc \o stream.rpc, stream.result, Md5Of(f), answer)
        ELSE Pass(StoreSample(sess, f, given), has.rpc \o stream.rpc,
                  Value(NoneStr), Md5Of(f), answer)

\* one pass of "for path in file_list" (an exception ends load_sample)
load_file(f, o, sess, hs, wb, st) ==
    LET has == HasSample(hs, wb, o)
        stream == StreamToWorkbench(hs, st, o)
    IN  IF o.k = "IOError"
        THEN Pass(sess, <<>>, Raised("IOError"), None, NoneStr)
        ELSE IF has.result.kind = "raised"
        THEN Pass(sess, has.rpc, has.result, Md5Of(f), NoneStr)
        ELSE IF o.k = "stored"
        THEN Pass(StoreSample(sess, f, Md5Of(f)), has.rpc, Value(NoneStr),
                  Md5Of(f), "True")
        ELSE IF stream.result.kind = "raised"
        THEN Pass(sess, has.rpc \o stream.rpc, stream.result, Md5Of(f), "False")
        ELSE Pass(StoreSample(sess, f, o.h), has.rpc \o stream.rpc,
                  Value(NoneStr), Md5Of(f), "False")

-----------------------------------------------------------------------------
(***************************************************************************)
(* The shell process                                                       *)
(***************************************************************************)
TransformerOff ==
    /\ tpc = "off"
    /\ line = <<>>
    /\ command_set = {}
    /\ ns_token_set = {}
    /\ out = None

Init ==
    /\ pc = "start"
    /\ exit_status = Running
    /\ exit_cause = NoneStr
    /\ server_info = NoneStr
    /\ advertised \in Advertisements
    /\ handles = <<>>
    /\ workbench = NoClient
    /\ session = NoSession
    /\ command_dict = NoTable
    /\ streamer = NoClient
    /\ file_list = <<>>
    /\ last = NoLast
    /\ TransformerOff

\* the process ends: sys.exit, or an exception nothing in the source catches
Exit(status, cause) ==
    /\ pc' = "exited"
    /\ exit_status' = status
    /\ exit_cause' = cause

NumConnects == Cardinality({i \in DOMAIN handles : handles[i].kind = "probe"})

\* __init__, lines 109-117: the server arguments, self.workbench = None, connect
InitConnect ==
    /\ pc = "start"
    /\ \E info \in Servers, probe \in {"ok", "LostRemote"} :
          LET r == connect(handles, NoClient, info, probe)
          IN  /\ server_info' = info
              /\ handles' = r.handles
              /\ workbench' = r.workbench
              /\ last' = Last("__init__", NoneStr, None, info, probe, r.rpc,
                              IF r.exit # Running THEN Raised("SystemExit")
                              ELSE Value(NoneStr))
              /\ IF r.exit # Running
                 THEN Exit(r.exit, "startup probe")
                 ELSE pc' = "session" /\ UNCHANGED <<exit_status, exit_cause>>
    /\ UNCHANGED <<advertised, session, command_dict, streamer, file_list>>
    /\ UNCHANGED tvars

\* __init__, line 120: self.session = self.Session()
InitSession ==
    /\ pc = "session"
    /\ session' = NewSession
    /\ pc' = "commands"
    /\ UNCHANGED <<exit_status, exit_cause, server_info, advertised, handles,
                   workbench, command_dict, streamer, file_list, last>>
    /\ UNCHANGED tvars

\* __init__, lines 123-124: self.command_dict = self._generate_command_dict()
InitCommandDict ==
    /\ pc = "commands"
    /\ \E outcome \in RpcOutcomes :
          LET workers == Call(handles, workbench, "list_all_workers", outcome)
              commands == Call(handles, workbench, "list_all_commands", outcome)
              adv == advertised[handles[workbench].server]
          IN  IF outcome = "ok"
              THEN /\ command_dict' = generate_command_dict(adv.workers, adv.commands,
                                                            workbench, server_info, session)
                   /\ last' = Last("__init__", NoneStr, None, server_info, "ok",
                                   workers.rpc \o commands.rpc, Value(NoneStr))
                   /\ pc' = "streamer"
                   /\ UNCHANGED <<exit_status, exit_cause>>
              ELSE /\ last' = Last("__init__", NoneStr, None, server_info, "ok",
                                   workers.rpc, workers.result)
                   /\ Exit(<<1>>, "uncaught exception")
                   /\ UNCHANGED command_dict
    /\ UNCHANGED <<server_info, advertised, handles, workbench, session, streamer,
                   file_list>>
    /\ UNCHANGED tvars

\* __init__, lines 127-133: the FileStreamer is given the client of this moment
InitStreamer ==
    /\ pc = "streamer"
    /\ streamer' = workbench
    /\ pc' = "run"
    /\ UNCHANGED <<exit_status, exit_cause, server_info, advertised, handles,
                   workbench, session, command_dict, file_list, last>>
    /\ UNCHANGED tvars

\* run(self): versions(), the help text, then the IPython shell is started
Run ==
    /\ pc = "run"
    /\ \E outcome \in RpcOutcomes :
          LET help == Call(handles, workbench, "help", outcome)
          IN  /\ last' = Last("run", NoneStr, None, NoneStr, NoneStr, help.rpc, help.result)
              /\ IF outcome = "ok"
                 THEN pc' = "shell" /\ UNCHANGED <<exit_status, exit_cause>>
                 ELSE Exit(<<1>>, "uncaught exception")
    /\ UNCHANGED <<server_info, advertised, handles, workbench, session,
                   command_dict, streamer, file_list>>
    /\ UNCHANGED tvars

\* the names of the table whose entry is of the given kind and target
EntriesOf(kind, target) ==
    {n \in DOMAIN command_dict :
        command_dict[n].kind = kind /\ (target = "any" \/ command_dict[n].target = target)}

\* the md5 arguments the operator may give a worker entry
Md5Args == {None, <<>>} \cup Hashes

ShellQuiet == UNCHANGED <<pc, exit_status, exit_cause, server_info, advertised,
                          handles, workbench, session, command_dict, streamer,
                          file_list>>

\* a worker entry is called: lambda md5=None, worker=worker: self.work_request(worker, md5)
InvokeWorker ==
    /\ pc = "shell"
    /\ \E name \in EntriesOf("worker", "any"), md5 \in Md5Args, outcome \in RpcOutcomes :
          LET r == work_request(session, handles, workbench, command_dict[name].target,
                                md5, outcome)
          IN  last' = [Last("worker", name, md5, NoneStr, NoneStr, r.rpc, r.result)
                          EXCEPT !.sent = r.md5]
    /\ ShellQuiet
    /\ UNCHANGED tvars

\* a command entry is called: the bound method of the client of the build
InvokeCommand ==
    /\ pc = "shell"
    /\ \E name \in EntriesOf("command", "any"), outcome \in RpcOutcomes :
          LET r == Call(handles, command_dict[name].client, command_dict[name].target,
                        outcome)
          IN  last' = Last("command", name, None, NoneStr, NoneStr, r.rpc, r.result)
    /\ ShellQuiet
    /\ UNCHANGED tvars

\* help is called: repr_to_str_decorator(self.workbench.help)
InvokeHelp ==
    /\ pc = "shell"
    /\ \E name \in EntriesOf("builtin", "help"), outcome \in RpcOutcomes :
          LET r == Call(handles, command_dict[name].client, "help", outcome)
          IN  last' = Last("help", name, None, NoneStr, NoneStr, r.rpc, r.result)
    /\ ShellQuiet
    /\ UNCHANGED tvars

\* a method is called on the entry 'workbench', the client of the build
InvokeClient ==
    /\ pc = "shell"
    /\ \E name \in EntriesOf("builtin", "client"), outcome \in RpcOutcomes :
          LET r == Call(handles, command_dict[name].client, "list_all_workers", outcome)
          IN  last' = Last("client", name, None, NoneStr, NoneStr, r.rpc, r.result)
    /\ ShellQuiet
    /\ UNCHANGED tvars

\* version or versions is called: versions(self)
InvokeVersions ==
    /\ pc = "shell"
    /\ \E name \in EntriesOf("builtin", "versions"), outcome \in RpcOutcomes :
          LET r == Call(handles, workbench, "help", outcome)
          IN  last' = Last("versions", name, None, NoneStr, NoneStr, r.rpc,
                           IF r.result.kind = "value" THEN Value(NoneStr) ELSE r.result)
    /\ ShellQuiet
    /\ UNCHANGED tvars

\* short_md5 is read: the string the table was built with
ReadShortMd5 ==
    /\ pc = "shell"
    /\ \E name \in EntriesOf("builtin", "value") :
          last' = Last("short_md5", name, command_dict[name].value, NoneStr, NoneStr,
                       <<>>, Value("short_md5"))
    /\ ShellQuiet
    /\ UNCHANGED tvars

\* (mutant) a successful reconnect starts a new session
ReconnectWithNewSession ==
    /\ pc = "shell"
    /\ NumConnects < MaxConnects
    /\ \E name \in EntriesOf("builtin", "reconnect"), info \in Servers,
          probe \in {"ok", "LostRemote"} :
          LET r == connect(handles, workbench, info, probe)
          IN  /\ handles' = r.handles
              /\ workbench' = r.workbench
              /\ last' = Last("reconnect", name, None, info, probe, r.rpc,
                              IF r.exit # Running THEN Raised("SystemExit")
                              ELSE Value(NoneStr))
              /\ IF r.exit # Running
                 THEN Exit(r.exit, "reconnect probe") /\ UNCHANGED session
                 ELSE session' = NewSession /\ UNCHANGED <<pc, exit_status, exit_cause>>
    /\ UNCHANGED <<server_info, advertised, command_dict, streamer, file_list>>
    /\ UNCHANGED tvars

\* reconnect is called: lambda info=self.server_info: self.connect(info)
Reconnect ==
    /\ pc = "shell"
    /\ NumConnects < MaxConnects
    /\ \E name \in EntriesOf("builtin", "reconnect"), info \in Servers,
          probe \in {"ok", "LostRemote"} :
          LET r == connect(handles, workbench, info, probe)
          IN  /\ handles' = r.handles
              /\ workbench' = r.workbench
              /\ last' = Last("reconnect", name, None, info, probe, r.rpc,
                              IF r.exit # Running THEN Raised("SystemExit")
                              ELSE Value(NoneStr))
              /\ IF r.exit # Running
                 THEN Exit(r.exit, "reconnect probe")
                 ELSE UNCHANGED <<pc, exit_status, exit_cause>>
    /\ UNCHANGED <<server_info, advertised, session, command_dict, streamer, file_list>>
    /\ UNCHANGED tvars

\* load_sample is called, lines 180-184: file_list is the file or the directory's children
LoadSample ==
    /\ pc = "shell"
    /\ \E name \in EntriesOf("builtin", "load_sample"), n \in 0..MaxFiles :
          \E files \in [1..n -> Files] :
              /\ file_list' = files
              /\ pc' = IF n = 0 THEN "shell" ELSE "load_sample"
              /\ last' = Last("load_sample", name, None, NoneStr, NoneStr, <<>>,
                              Value(NoneStr))
    /\ UNCHANGED <<exit_status, exit_cause, server_info, advertised, handles,
                   workbench, session, command_dict, streamer>>
    /\ UNCHANGED tvars

\* load_sample, lines 187-205: one pass of the loop over file_list
LoadFile ==
    /\ pc = "load_sample"
    /\ \E o \in FileOutcomes :
          LET r == load_file(Head(file_list), o, session, handles, workbench, streamer)
              raised == r.result.kind = "raised"
          IN  /\ session' = r.session
              /\ file_list' = IF raised THEN <<>> ELSE Tail(file_list)
              /\ pc' = IF raised \/ Len(file_list) = 1 THEN "shell" ELSE "load_sample"
              /\ last' = [last EXCEPT !.rpc = last.rpc \o r.rpc, !.result = r.result,
                                       !.md5 = r.md5, !.has = r.has]
    /\ UNCHANGED <<exit_status, exit_cause, server_info, advertised, handles,
                   workbench, command_dict, streamer>>
    /\ UNCHANGED tvars

Next ==
    \/ InitConnect
    \/ InitSession
    \/ InitCommandDict
    \/ InitStreamer
    \/ Run
    \/ InvokeWorker
    \/ InvokeCommand
    \/ InvokeHelp
    \/ InvokeClient
    \/ InvokeVersions
    \/ ReadShortMd5
    \/ Reconnect
    \/ LoadSample
    \/ LoadFile

Spec == Init /\ [][Next]_vars

-----------------------------------------------------------------------------
(***************************************************************************)
(* transform on its own: every bounded line, command set and namespace     *)
(***************************************************************************)
\* the shell is not running while transform is examined on its own
ShellOff ==
    /\ pc = "off"
    /\ exit_status = Running
    /\ exit_cause = NoneStr
    /\ server_info = NoneStr
    /\ advertised = [s \in Servers |-> [workers |-> {}, commands |-> {}]]
    /\ handles = <<>>
    /\ workbench = NoClient
    /\ session = NoSession
    /\ command_dict = NoTable
    /\ streamer = NoClient
    /\ file_list = <<>>
    /\ last = NoLast

InitT ==
    /\ tpc = "input"
    /\ line \in InputLines
    /\ command_set \in CommandSets
    /\ ns_token_set \in NamespaceSets
    /\ out = None
    /\ ShellOff

\* one call of AutoQuoteTransformer.transform on the line read
TransformLine ==
    /\ tpc = "input"
    /\ \E order \in IterationOrders(LoopTokens(line, command_set)) :
           out' = transform(line, command_set, ns_token_set, order)
    /\ tpc' = "done"
    /\ UNCHANGED <<line, command_set, ns_token_set>>
    /\ UNCHANGED svars

NextT == TransformLine

SpecT == InitT /\ [][NextT]_vars

-----------------------------------------------------------------------------
(***************************************************************************)
(* Properties of the shell process                                         *)
(***************************************************************************)
\* what the server the shell is now connected to advertises
NowAdvertised == advertised[handles[workbench].server]

ReconnectSucceeded ==
    pc = "shell" /\ last.op = "reconnect" /\ last.result.kind = "value"

\* C1: after a successful reconnect the table holds exactly the builtins and
\* the worker and command names of the server now connected to: a name only
\* the new server advertises is in it, a non-builtin name only the old server
\* advertised is not.
C1_ReconnectRebuildsTable ==
    ReconnectSucceeded =>
        DOMAIN command_dict = Builtins \cup NowAdvertised.workers \cup NowAdvertised.commands

ReconnectProbeFailed == last.op = "reconnect" /\ last.probe = "LostRemote"

\* C2: a probe failure during reconnect leaves the shell running, with the
\* working client it had still open and still the current one.
C2_ReconnectFailureRecoverable ==
    ReconnectProbeFailed =>
        /\ pc = "shell"
        /\ exit_status = Running
        /\ workbench # NoClient
        /\ handles[workbench].kind = "work"
        /\ handles[workbench].open

StartupProbeFailed == last.op = "__init__" /\ last.probe = "LostRemote"

NoWorkingClientYet ==
    /\ workbench = NoClient
    /\ \A i \in DOMAIN handles : handles[i].kind # "work"

\* C3: when the startup probe fails the process ends with a non-zero status,
\* and from the start up to that end no working client was opened, no session
\* created and no command table built.
C3_StartupProbeFailureFatal ==
    /\ StartupProbeFailed =>
          /\ pc = "exited"
          /\ exit_status # Running
          /\ exit_status # <<0>>
    /\ (pc = "start" \/ StartupProbeFailed) =>
          /\ NoWorkingClientYet
          /\ session = NoSession
          /\ command_dict = NoTable
          /\ streamer = NoClient

\* C3 witness: the process ended with status 1 after the startup probe was lost.
C3_Witness ==
    /\ StartupProbeFailed
    /\ pc = "exited"
    /\ exit_status = <<1>>
    /\ exit_cause = "startup probe"
    /\ Len(handles) = 1
    /\ handles[1].kind = "probe"

\* C9: in a built table every name has the one entry the order builtin >
\* remote command > worker gives it, for whatever the server advertised.
C9_Precedence ==
    command_dict # NoTable =>
        LET adv == advertised[server_info]
        IN  /\ DOMAIN command_dict = Builtins \cup adv.workers \cup adv.commands
            /\ \A n \in DOMAIN command_dict :
                  IF n \in Builtins THEN command_dict[n].kind = "builtin"
                  ELSE IF n \in adv.commands
                       THEN command_dict[n].kind = "command" /\ command_dict[n].target = n
                       ELSE command_dict[n].kind = "worker" /\ command_dict[n].target = n

\* C9 witness: a table built where meta is a worker and a command, and help a
\* worker and a command besides being a builtin.
C9_Witness ==
    /\ command_dict # NoTable
    /\ "meta" \in advertised[server_info].workers \cap advertised[server_info].commands
    /\ "help" \in advertised[server_info].workers \cap advertised[server_info].commands
    /\ command_dict["meta"].kind = "command"
    /\ command_dict["help"].kind = "builtin"

\* C10: a worker entry called with no md5 while the session has none returns
\* the local message, makes no remote call and leaves the session and the
\* clients as they were.
C10_NoHashNoCall ==
    [][(/\ pc = "shell"
        /\ last'.op = "worker"
        /\ last'.md5 = None
        /\ session.md5 = None)
       => /\ last'.rpc = <<>>
          /\ last'.result = Value(MustCallMessage)
          /\ session' = session
          /\ workbench' = workbench
          /\ handles' = handles
          /\ pc' = "shell"]_vars

\* C10 witness: a worker entry was called with no md5 on an empty session and
\* answered with the message, no call made.
C10_Witness ==
    /\ pc = "shell"
    /\ last.op = "worker"
    /\ last.md5 = None
    /\ session.md5 = None
    /\ last.rpc = <<>>
    /\ last.result = Value(MustCallMessage)

-----------------------------------------------------------------------------
(***************************************************************************)
(* Exceptions at the table entries                                         *)
(***************************************************************************)
\* C11: a RemoteError of the service never leaves a worker entry, a command
\* entry or help as an exception; the entry returns a display string instead.
C11_RemoteErrorAlwaysCaught ==
    last.op \in {"worker", "command", "help"} => last.result # Raised("RemoteError")

-----------------------------------------------------------------------------
(***************************************************************************)
(* The session and load_sample                                             *)
(***************************************************************************)
\* C12: in every state with a session, short_md5 is the first 6 characters of
\* md5 when md5 is set and '-' when it is not, and filename is set exactly
\* when md5 is.
C12_ShortMd5Agrees ==
    session # NoSession =>
        IF session.md5 = None
        THEN session.short_md5 = <<"-">> /\ session.filename = NoneStr
        ELSE /\ session.short_md5 = SubSeq(session.md5, 1, ShortLen)
             /\ Len(session.short_md5) = ShortLen
             /\ session.filename \in Files

\* C12 witness: back at the prompt after load_sample streamed a file and the
\* service gave the md5 'bbb...': the session holds it and its first 6 characters.
C12_Witness ==
    /\ pc = "shell"
    /\ last.op = "load_sample"
    /\ last.has = "False"
    /\ session.filename = "f1"
    /\ session.md5 = Hash("b")
    /\ session.short_md5 = <<"b", "b", "b", "b", "b", "b">>

\* C13: when has_sample answers true for the md5 of a file, the last call of
\* load_sample so far is that has_sample (stream_to_workbench is not called
\* for the file) and the md5 of the session is the md5 computed from the file.
C13_StoredSampleNotStreamed ==
    (last.op = "load_sample" /\ last.has = "True") =>
        /\ last.rpc # <<>>
        /\ last.rpc[Len(last.rpc)] = [client |-> workbench, method |-> "has_sample"]
        /\ last.result = Value(NoneStr)
        /\ session.md5 = last.md5
        /\ session.md5 = Md5Of(session.filename)

\* C13 witness: the first file was streamed, the second the service had:
\* three calls, the last one has_sample, and the session holds the second's md5.
C13_Witness ==
    /\ pc = "shell"
    /\ last.op = "load_sample"
    /\ last.has = "True"
    /\ Len(last.rpc) = 3
    /\ last.rpc[2].method = "stream_to_workbench"
    /\ last.rpc[3].method = "has_sample"
    /\ session.filename = "f2"
    /\ session.md5 = Hash("b")

-----------------------------------------------------------------------------
(***************************************************************************)
(* The clients                                                             *)
(***************************************************************************)
\* C14: once the shell is at its prompt, also after a successful reconnect,
\* every table entry that holds a client and the streamer hold the current
\* working client, and no call of an entry was made on a closed client.
C14_NoStaleClient ==
    pc \in {"shell", "load_sample"} =>
        /\ streamer = workbench
        /\ \A n \in DOMAIN command_dict : command_dict[n].client \in {NoClient, workbench}
        /\ last.result # Raised("closed client")

\* C15: a LostRemote during the call of a worker entry or a command entry
\* never leaves the entry as an exception; the entry returns a display value.
C15_LostRemoteCaught ==
    last.op \in {"worker", "command"} => last.result # Raised("LostRemote")

\* the working clients that are open
OpenWorkClients == {i \in DOMAIN handles : handles[i].kind = "work" /\ handles[i].open}

\* C16: whatever connects and reconnects were made, at most one working
\* client is open, and an open one is the current one: every working client
\* that was replaced is closed.
C16_OneWorkingClient ==
    /\ Cardinality(OpenWorkClients) <= 1
    /\ OpenWorkClients \subseteq {workbench}

\* C16 witness: after a successful reconnect there are two working clients,
\* the first closed and the second open and current.
C16_Witness ==
    /\ pc = "shell"
    /\ last.op = "reconnect"
    /\ Len(handles) = 4
    /\ handles[2].kind = "work" /\ ~handles[2].open
    /\ handles[4].kind = "work" /\ handles[4].open
    /\ workbench = 4

\* C17: once created, the session changes only in a pass of load_sample:
\* reconnect, the entries called at the prompt and the building of the table
\* leave it as it was; and a worker entry called without md5 on a session
\* with a sample passes the md5 of the session to the current client.
C17_SessionChangedOnlyByLoadSample ==
    [][/\ (session # NoSession /\ session' # session)
              => (pc = "load_sample" /\ last'.op = "load_sample")
       /\ (pc = "shell" /\ last'.op = "worker" /\ Falsy(last'.md5) /\ session.md5 # None)
              => /\ last'.sent = session.md5
                 /\ last'.rpc = <<[client |-> workbench, method |-> "work_request"]>>]_vars

\* C17 witness: a successful reconnect has just been made on a session that
\* holds a sample, and the session holds it still.
C17_Witness ==
    /\ pc = "shell"
    /\ last.op = "reconnect"
    /\ last.result = Value(NoneStr)
    /\ handles[workbench].open
    /\ session.filename = "f1"
    /\ session.md5 = Hash("a")
    /\ session.short_md5 = SubSeq(Hash("a"), 1, ShortLen)

-----------------------------------------------------------------------------
(***************************************************************************)
(* transform as a function: order of the tokens, second pass, quotes       *)
(***************************************************************************)
\* the tokens the loop replaces: all it runs over in the help branch, those
\* outside the namespace in the general branch
RewrittenTokens ==
    IF TakesHelpBranch THEN LoopTokens(line, command_set)
    ELSE LoopTokens(line, command_set) \ ns_token_set

\* the places of s where the non-empty t stands
Occurrences(t, s) ==
    {i \in 1..Len(s) : i + Len(t) - 1 <= Len(s) /\ SubSeq(s, i, i + Len(t) - 1) = t}

\* an occurrence of t1 and one of t2 share a character of s
Overlap(t1, t2, s) ==
    \E i \in Occurrences(t1, s), j \in Occurrences(t2, s) :
        i <= j + Len(t2) - 1 /\ j <= i + Len(t1) - 1

\* at most one token is replaced, or none of the replaced tokens is empty and
\* no two of them have occurrences in the line that share a character
NoClash ==
    \/ Cardinality(RewrittenTokens) <= 1
    \/ /\ <<>> \notin RewrittenTokens
       /\ \A t1, t2 \in RewrittenTokens : t1 # t2 => ~Overlap(t1, t2, line)

\* every order in which the set may hand out its tokens gives the output out
SameForEveryOrder ==
    \A order \in IterationOrders(LoopTokens(line, command_set)) :
        transform(line, command_set, ns_token_set, order) = out

\* C18 as claimed: the output is the same for every order in which the tokens
\* are processed, also when one token is a substring of another.
C18_OrderIndependent == Done => SameForEveryOrder

\* C18 amended: the output is the same for every order in which the tokens are
\* processed when at most one token is replaced, or no replaced token is empty
\* and no two replaced tokens have occurrences in the line that share a character.
C18_OrderIndependentWithoutClash == (Done /\ NoClash) => SameForEveryOrder

\* C18 witness: 'ps md help' with an empty namespace: three tokens replaced,
\* none touching another, all three quoted.
C18_Witness ==
    /\ Done
    /\ line = W_ps \o <<SP>> \o W_md \o <<SP>> \o W_help
    /\ ns_token_set = {}
    /\ Cardinality(RewrittenTokens) = 3
    /\ NoClash
    /\ out = Quoted(W_ps) \o <<SP>> \o Quoted(W_md) \o <<SP>> \o Quoted(W_help)

\* C19: transform applied to its own output, with the same command set and
\* namespace and whatever the order of the tokens, returns that output.
C19_Idempotent ==
    Done =>
        \A order \in IterationOrders(LoopTokens(out, command_set)) :
            transform(out, command_set, ns_token_set, order) = out

\* C19 witness: 'ps md' with ps in the namespace became 'ps "md"', a line that
\* begins with a known command and has a second token, kept by its quotes.
C19_Witness ==
    /\ Done
    /\ line = W_ps \o <<SP>> \o W_md
    /\ ns_token_set = {W_ps}
    /\ out = W_ps \o <<SP>> \o Quoted(W_md)
    /\ out # line
    /\ Contains(out, DQ)
    /\ TakesBranch(out, command_set)

\* s without its double quotes
RECURSIVE StripDQ(_)
StripDQ(s) ==
    IF s = <<>> THEN <<>>
    ELSE IF Head(s) = DQ THEN StripDQ(Tail(s)) ELSE <<Head(s)>> \o StripDQ(Tail(s))

\* C20: the output without its double quotes is the input line exactly when
\* the input line holds no double quote.
C20_OnlyInsertsQuotes ==
    Done => ((StripDQ(out) = line) <=> ~Contains(line, DQ))

\* C20 witness: 'ps p' with an empty namespace, p standing inside ps: the
\* output differs from the line and is the line once its quotes are taken out.
C20_Witness ==
    /\ Done
    /\ line = W_ps \o <<SP>> \o W_p
    /\ ns_token_set = {}
    /\ ~Contains(line, DQ)
    /\ out # line
    /\ Len(out) > Len(line) + 4
    /\ StripDQ(out) = line

=============================================================================
